---- MODULE Spec2Model ----
(***************************************************************************)
(* nc2shp.py: netCDF field -> contour rings -> polygons -> shapefile ->     *)
(* filled-contour figure.  The pipeline of main() is a state machine whose  *)
(* program counter pc walks the stages; read_nc and the helpers of          *)
(* write_shapefile are operators computed as the code computes them.        *)
(*                                                                         *)
(* Encodings.  Python's None is the empty tuple <<>> and a present value x  *)
(* is <<x>>.  Times are integer hours.  A field is a function from Cells to *)
(* values; a reduced value is the exact rational [num, den] so that the     *)
(* mean is not rounded.  A vertex is <<lon, lat>>.                          *)
(***************************************************************************)
EXTENDS Integers, Sequences, FiniteSets, TLC

VARIABLES args, pc, err, arr, meantime, cs, polylist, wi, shpfile, contourfig, fillfig

vars == <<args, pc, err, arr, meantime, cs, polylist, wi, shpfile, contourfig, fillfig>>

None == <<>>
Some(x) == <<x>>

(* ------------------------------ bounds --------------------------------- *)
\* most time samples a source dataset holds
MaxTimes == 2
\* most rings (paths) one contour collection holds
MaxRings == 2

(* --------------------------- input universes --------------------------- *)
Cells == {"c1", "c2"}
VarNames == {"a", "b"}
TimeAxis == 0 .. 3
Levels == {10, 25}

RECURSIVE SumSeq(_)
SumSeq(s) == IF s = <<>> THEN 0 ELSE s[1] + SumSeq(Tail(s))

RECURSIVE MaxSeq(_)
MaxSeq(s) == IF Len(s) = 1 THEN s[1]
             ELSE LET m == MaxSeq(Tail(s)) IN IF s[1] > m THEN s[1] ELSE m

RECURSIVE MinSeq(_)
MinSeq(s) == IF Len(s) = 1 THEN s[1]
             ELSE LET m == MinSeq(Tail(s)) IN IF s[1] < m THEN s[1] ELSE m

(* ------------------------------ read_nc -------------------------------- *)
\* ds.sel(time=slice(start,end)): the positions of the samples whose label
\* lies in the closed interval, in order
RECURSIVE SelTime(_, _, _, _)
SelTime(times, start, end, i) ==
    IF i > Len(times) THEN <<>>
    ELSE IF start <= times[i] /\ times[i] <= end
         THEN <<i>> \o SelTime(times, start, end, i + 1)
         ELSE SelTime(times, start, end, i + 1)

AllTime(times) == [i \in 1 .. Len(times) |-> i]

\* lines 49-50: the slice is applied only when the source has more than one sample
TimeSelection(times, start, end) ==
    IF Len(times) > 1 THEN SelTime(times, start, end, 1) ELSE AllTime(times)

\* lines 52-53: a bare string is wrapped into a one-element list
VarList(ncvars) == IF ncvars.type = "str" THEN <<ncvars.v>> ELSE ncvars.v

\* lines 54-58: arrs = ds[v1] + ds[v2] + ... over the selected samples;
\* the result is a sequence (time) of fields
RECURSIVE AddVars(_, _, _, _)
AddVars(ds, sel, vlist, c) ==
    IF c = 1
    THEN [k \in 1 .. Len(sel) |-> ds.data[vlist[1]][sel[k]]]
    ELSE LET prev == AddVars(ds, sel, vlist, c - 1)
         IN [k \in 1 .. Len(sel) |->
                [x \in Cells |-> prev[k][x] + ds.data[vlist[c]][sel[k]][x]]]

\* lines 60-62: m + (times - m).mean(), an integer division on the time unit
MeanTime(times) ==
    LET m == MinSeq(times)
        d == [k \in 1 .. Len(times) |-> times[k] - m]
    IN m + (SumSeq(d) \div Len(times))

\* variant: the first selected sample is returned unreduced
ReduceFirstSample(arrs, func) ==
    [x \in Cells |-> [num |-> arrs[1][x], den |-> 1]]

\* lines 64-69: reduction over the time dimension, per cell
ReduceTime(arrs, func) ==
    [x \in Cells |->
        LET col == [k \in 1 .. Len(arrs) |-> arrs[k][x]]
        IN IF func = "mean" THEN [num |-> SumSeq(col), den |-> Len(col)]
           ELSE IF func = "max" THEN [num |-> MaxSeq(col), den |-> 1]
           ELSE [num |-> MinSeq(col), den |-> 1]]

\* lines 74-75
Scale(a, scal) ==
    IF scal # 1 THEN [x \in Cells |-> [num |-> a[x].num * scal, den |-> a[x].den]]
    ELSE a

Fail(kind) == [ok |-> FALSE, err |-> kind]

\* variant: a 'lev' dimension of any length is dropped silently
SqueezeAny(lev) == TRUE

\* lines 71-72: squeeze('lev') raises unless the dimension has length 1
SqueezeOk(lev) == lev = 1

read_nc(ds, start, end, ncvars, scal, func) ==
    LET sel == TimeSelection(ds.time, start, end)
        vlist == VarList(ncvars)
        times == [k \in 1 .. Len(sel) |-> ds.time[sel[k]]]
    IN IF \E c \in 1 .. Len(vlist) : vlist[c] \notin DOMAIN ds.data
       THEN Fail("KeyError")
       ELSE IF times = <<>>
       THEN Fail("ValueError")
       ELSE IF func \notin {"mean", "max", "min"}
       THEN Fail("UnboundLocalError")
       ELSE IF ds.lev # 0 /\ ~SqueezeOk(ds.lev)
       THEN Fail("ValueError")
       ELSE [ok |-> TRUE,
             arr |-> Scale(ReduceTime(AddVars(ds, sel, vlist, Len(vlist)), func), scal),
             meantime |-> MeanTime(times)]

\* lines 148-158: start of the analysis day and the end of the window
Yesterday == 1
get_analysis_date(date, time_window) ==
    LET start == IF date = None THEN Yesterday ELSE date[1]
    IN [start |-> start, end |-> start + time_window]

\* datetime.strftime(template): the resolved name depends on both
strftime(t, tmpl) == <<tmpl, t>>

(* ---------------------------- get_contours ----------------------------- *)
\* rings the contouring routine may return: a two-vertex segment, an open
\* three-vertex line and a closed ring
Seg == << <<0, 1>>, <<2, 3>> >>
Tri == << <<0, 1>>, <<2, 1>>, <<2, 3>> >>
Box == << <<0, 1>>, <<0, 3>>, <<2, 3>>, <<2, 1>>, <<0, 1>> >>
Rings == {Seg, Tri, Box}

RingLists == UNION {[1 .. n -> Rings] : n \in 0 .. MaxRings}

\* line 86: the contour set has one collection per requested level, in the
\* order of the level list; what each collection holds is the routine's choice
ContourSets(contours) ==
    {[levels |-> contours, collections |-> cols] :
        cols \in [1 .. Len(contours) -> RingLists]}

(* --------------------------- write_shapefile --------------------------- *)
\* variant: collections are keyed by their contents, so that of two equal
\* collections the later level wins
LevelOfLastEqual(c) ==
    [i \in 1 .. Len(c.collections) |->
        c.levels[CHOOSE j \in 1 .. Len(c.collections) :
                    /\ c.collections[j] = c.collections[i]
                    /\ \A k \in 1 .. Len(c.collections) :
                          c.collections[k] = c.collections[i] => k <= j]]

\* line 98: dict(zip(cs.collections, cs.levels)); a collection is keyed by its
\* identity, here its position, and zip stops at the shorter sequence
LevelOf(c) ==
    [i \in 1 .. (IF Len(c.collections) < Len(c.levels)
                 THEN Len(c.collections) ELSE Len(c.levels)) |-> c.levels[i]]

\* line 106: shapely's Polygon raises on a shell that cannot make a linear
\* ring: fewer than 3 coordinates, or fewer than 4 once it is closed
PolygonRaises(path) ==
    \/ Len(path) < 3
    \/ (Len(path) = 3 /\ path[1] = path[3])

\* variant: the shell is built back to front
PolygonReversed(path) ==
    LET n == Len(path)
        r == [i \in 1 .. n |-> path[n + 1 - i]]
    IN IF r[1] = r[n] THEN r ELSE Append(r, r[1])

\* lines 103-106: the shell is the (lon, lat) pairs in path order; the ring is
\* closed by repeating the first vertex when the path does not end on it
Polygon(path) ==
    LET shell == [i \in 1 .. Len(path) |-> <<path[i][1], path[i][2]>>]
    IN IF shell[1] = shell[Len(shell)] THEN shell ELSE Append(shell, shell[1])

\* line 107
Props(propname, z) == [k \in {propname} |-> z]

\* lines 100-107: the two loops; the first ring that raises ends the call
RECURSIVE BuildPaths(_, _, _, _)
BuildPaths(paths, z, propname, j) ==
    IF j > Len(paths) THEN [ok |-> TRUE, list |-> <<>>]
    ELSE IF PolygonRaises(paths[j]) THEN [ok |-> FALSE, list |-> <<>>]
    ELSE LET rest == BuildPaths(paths, z, propname, j + 1)
         IN IF rest.ok
            THEN [ok |-> TRUE,
                  list |-> <<[poly |-> Polygon(paths[j]),
                              props |-> Props(propname, z)]>> \o rest.list]
            ELSE rest

\* variant: the features of a later collection are put first
RECURSIVE BuildPolylistReversed(_, _, _)
BuildPolylistReversed(c, propname, i) ==
    IF i > Len(c.collections) THEN [ok |-> TRUE, list |-> <<>>]
    ELSE LET here == BuildPaths(c.collections[i], LevelOf(c)[i], propname, 1)
         IN IF ~here.ok THEN here
            ELSE LET rest == BuildPolylistReversed(c, propname, i + 1)
                 IN IF rest.ok
                    THEN [ok |-> TRUE, list |-> rest.list \o here.list]
                    ELSE rest

\* lines 99-101: the outer loop over the collections, in their order
RECURSIVE BuildPolylist(_, _, _)
BuildPolylist(c, propname, i) ==
    IF i > Len(c.collections) THEN [ok |-> TRUE, list |-> <<>>]
    ELSE LET here == BuildPaths(c.collections[i], LevelOf(c)[i], propname, 1)
         IN IF ~here.ok THEN here
            ELSE LET rest == BuildPolylist(c, propname, i + 1)
                 IN IF rest.ok
                    THEN [ok |-> TRUE, list |-> here.list \o rest.list]
                    ELSE rest

\* line 110
Schema(propname) ==
    [geometry |-> "Polygon", properties |-> [k \in {propname} |-> "float"]]

\* lines 113-114: the record handed to output.write
Feature(p) ==
    [properties |-> p.props,
     geometry |-> [type |-> "Polygon", coordinates |-> <<p.poly>>]]

(* ---------------- read_shapefile_and_plot_filled_contour ---------------- *)
\* line 137: shape.record[0] is the value of the only attribute field
Record0(f) == f.properties[CHOOSE k \in DOMAIN f.properties : TRUE]

\* variant: every shape is filled, whatever its record
FillsAll(features, contour) ==
    [i \in 1 .. Len(features) |->
        LET pts == features[i].geometry.coordinates[1]
        IN [x |-> [k \in 1 .. Len(pts) |-> pts[k][1]],
            y |-> [k \in 1 .. Len(pts) |-> pts[k][2]]]]

\* lines 136-140: the shapes whose record equals the contour are filled, in
\* file order, as the x and y lists handed to ax.fill
RECURSIVE Fills(_, _)
Fills(features, contour) ==
    IF features = <<>> THEN <<>>
    ELSE LET f == features[1]
             pts == f.geometry.coordinates[1]
         IN (IF Record0(f) = contour
             THEN <<[x |-> [k \in 1 .. Len(pts) |-> pts[k][1]],
                     y |-> [k \in 1 .. Len(pts) |-> pts[k][2]]]>>
             ELSE <<>>) \o Fills(Tail(features), contour)

\* line 173
FillContour(a) ==
    IF a.fillfig_contour # None THEN a.fillfig_contour[1] ELSE a.contours[1]

\* lines 119-145: the value of the figure file after the call; the file read
\* is the one on disk under the name shapefile
read_shapefile_and_plot_filled_contour(disk, shapefile, contour, ofile, title, old) ==
    IF ofile = None THEN old
    ELSE IF shapefile = None THEN old
    ELSE Some([path |-> ofile[1], title |-> title,
               fills |-> Fills(disk[1].features, contour)])

(* ------------------------------- inputs -------------------------------- *)
F01 == [x \in Cells |-> IF x = "c1" THEN 0 ELSE 1]
F10 == [x \in Cells |-> IF x = "c1" THEN 1 ELSE 0]
F21 == [x \in Cells |-> IF x = "c1" THEN 2 ELSE 1]
Fields == {F01, F10, F21}

AscendingTimes(n) ==
    {s \in [1 .. n -> TimeAxis] : \A i, j \in 1 .. n : i < j => s[i] < s[j]}

\* the source datasets SpecRead starts from, with n samples: the
\* variables a and b, and no 'lev' dimension or one of length 1
Datasets(n) ==
    [time : AscendingTimes(n),
     data : [VarNames -> [1 .. n -> Fields]],
     lev : {0, 1}]

VarArgs == {[type |-> "str", v |-> "a"], [type |-> "list", v |-> <<"b">>],
            [type |-> "list", v |-> <<"a", "b">>], [type |-> "list", v |-> <<"a", "zz">>]}

\* the source datasets Spec starts from: one that reads, one whose
\* samples all lie outside the window, one with a 'lev' dimension of length 2
DsOk == [time |-> <<1, 2>>, data |-> [v \in {"a"} |-> <<F01, F10>>], lev |-> 1]
DsOutside == [time |-> <<0, 3>>, data |-> [v \in {"a"} |-> <<F01, F10>>], lev |-> 0]
DsLev == [time |-> <<1, 2>>, data |-> [v \in {"a"} |-> <<F01, F10>>], lev |-> 2]
PipeDatasets == {DsOk, DsOutside, DsLev}

ContourLists == {<<10>>, <<25>>, <<10, 25>>, <<25, 10>>}

BaseArgs ==
    [ifile |-> DsOk, date |-> None, time_window |-> 1,
     ncvars |-> [type |-> "list", v |-> <<"a">>], ncscal |-> 1, func |-> "mean",
     contours |-> <<10, 25>>, shapefile |-> Some("out_%Y%m%d.shp"), propname |-> "pm25",
     contour_figname |-> None, fillfig_name |-> Some("fig_%Y%m%d.png"),
     fillfig_contour |-> Some(25), fillfig_title |-> "title %Y-%m-%d"]

PipeArgs ==
    {[BaseArgs EXCEPT !.ifile = d, !.ncvars = v, !.contours = c, !.shapefile = s,
                      !.propname = p, !.contour_figname = cf, !.fillfig_name = ff,
                      !.fillfig_contour = fc] :
        d \in PipeDatasets,
        v \in {[type |-> "list", v |-> <<"a">>], [type |-> "list", v |-> <<"zz">>]},
        c \in ContourLists,
        s \in {None, Some("out_%Y%m%d.shp")},
        p \in {"pm25", "aod"},
        cf \in {None, Some("contours.png")},
        ff \in {None, Some("fig_%Y%m%d.png")},
        fc \in {None, Some(25)}}

ReadArgs(n) ==
    {[BaseArgs EXCEPT !.ifile = d, !.ncvars = v, !.ncscal = sc, !.func = f] :
        d \in Datasets(n), v \in VarArgs, sc \in {1, 3}, f \in {"mean", "max", "min"}}

(* ------------------------------- state --------------------------------- *)
NoErr == [stage |-> "", kind |-> ""]

Start(a) ==
    /\ args = a
    /\ pc = "read"
    /\ err = NoErr
    /\ arr = None
    /\ meantime = None
    /\ cs = None
    /\ polylist = <<>>
    /\ wi = 0
    /\ shpfile = None
    /\ contourfig = None
    /\ fillfig = None

Init == \E a \in PipeArgs : Start(a)

InitRead == \E n \in 0 .. MaxTimes : \E a \in ReadArgs(n) : Start(a)

Raise(stage, kind) ==
    /\ pc' = "failed"
    /\ err' = [stage |-> stage, kind |-> kind]

\* line 170
ShapefileName == IF args.shapefile # None
                 THEN Some(strftime(meantime[1], args.shapefile[1])) ELSE None

(* ------------------------------- main ---------------------------------- *)
\* lines 164-165
ReadStage ==
    /\ pc = "read"
    /\ LET d == get_analysis_date(args.date, args.time_window)
           r == read_nc(args.ifile, d.start, d.end, args.ncvars, args.ncscal, args.func)
       IN IF r.ok
          THEN /\ arr' = Some(r.arr)
               /\ meantime' = Some(r.meantime)
               /\ pc' = "contour"
               /\ UNCHANGED err
          ELSE /\ Raise("read", r.err)
               /\ UNCHANGED <<arr, meantime>>
    /\ UNCHANGED <<args, cs, polylist, wi, shpfile, contourfig, fillfig>>

\* lines 167-168 and 85-91: the contour set comes back and, when a name is
\* given, the preview figure is saved
ContourStage ==
    /\ pc = "contour"
    /\ \E c \in ContourSets(args.contours) : cs' = Some(c)
    /\ contourfig' = IF args.contour_figname # None
                     THEN Some([path |-> strftime(meantime[1], args.contour_figname[1])])
                     ELSE None
    /\ pc' = "build"
    /\ UNCHANGED <<args, err, arr, meantime, polylist, wi, shpfile, fillfig>>

\* line 86: the contouring call raises (nothing in get_contours catches it)
ContourFail ==
    /\ pc = "contour"
    /\ Raise("contour", "Exception")
    /\ UNCHANGED <<args, arr, meantime, cs, polylist, wi, shpfile, contourfig, fillfig>>

\* lines 98-107
BuildStage ==
    /\ pc = "build"
    /\ LET r == BuildPolylist(cs[1], args.propname, 1)
       IN IF r.ok
          THEN /\ polylist' = r.list
               /\ pc' = "open"
               /\ UNCHANGED err
          ELSE /\ Raise("build", "ValueError")
               /\ UNCHANGED polylist
    /\ UNCHANGED <<args, arr, meantime, cs, wi, shpfile, contourfig, fillfig>>

\* variant: with nothing to write the file is not created
OpenStageSkipsEmpty ==
    /\ pc = "open"
    /\ IF ShapefileName = None
       THEN /\ Raise("open", "TypeError")
            /\ UNCHANGED <<shpfile, wi>>
       ELSE IF polylist = <<>>
       THEN /\ pc' = "render"
            /\ wi' = 1
            /\ UNCHANGED <<shpfile, err>>
       ELSE /\ shpfile' = Some([path |-> ShapefileName[1],
                                schema |-> Schema(args.propname),
                                features |-> <<>>])
            /\ wi' = 1
            /\ pc' = "writing"
            /\ UNCHANGED err
    /\ UNCHANGED <<args, arr, meantime, cs, polylist, contourfig, fillfig>>

\* lines 110-111: the collection is opened for writing with the schema; a
\* shapefile name of None is no path
OpenStage ==
    /\ pc = "open"
    /\ IF ShapefileName = None
       THEN /\ Raise("open", "TypeError")
            /\ UNCHANGED <<shpfile, wi>>
       ELSE /\ shpfile' = Some([path |-> ShapefileName[1],
                                schema |-> Schema(args.propname),
                                features |-> <<>>])
            /\ wi' = 1
            /\ pc' = "writing"
            /\ UNCHANGED err
    /\ UNCHANGED <<args, arr, meantime, cs, polylist, contourfig, fillfig>>

\* line 111: opening the file fails
OpenFail ==
    /\ pc = "open"
    /\ ShapefileName # None
    /\ Raise("open", "IOError")
    /\ UNCHANGED <<args, arr, meantime, cs, polylist, wi, shpfile, contourfig, fillfig>>

\* lines 112-114: one feature is written
WriteFeature ==
    /\ pc = "writing"
    /\ wi <= Len(polylist)
    /\ shpfile' = Some([shpfile[1] EXCEPT !.features = Append(@, Feature(polylist[wi]))])
    /\ wi' = wi + 1
    /\ UNCHANGED <<args, pc, err, arr, meantime, cs, polylist, contourfig, fillfig>>

\* lines 111-114: a write raises; leaving the with block closes the
\* collection, and the file keeps the features written so far
WriteFeatureFail ==
    /\ pc = "writing"
    /\ wi <= Len(polylist)
    /\ Raise("write", "IOError")
    /\ UNCHANGED <<args, arr, meantime, cs, polylist, wi, shpfile, contourfig, fillfig>>

\* lines 111 and 115-116: the loop is over, the collection is closed
WriteClose ==
    /\ pc = "writing"
    /\ wi > Len(polylist)
    /\ pc' = "render"
    /\ UNCHANGED <<args, err, arr, meantime, cs, polylist, wi, shpfile, contourfig, fillfig>>

\* lines 173-181: strftime of a figure name of None raises before the call;
\* line 128: the reader raises on a file that is not there
RenderStage ==
    /\ pc = "render"
    /\ IF args.fillfig_name = None
       THEN /\ Raise("render", "TypeError")
            /\ UNCHANGED fillfig
       ELSE IF shpfile = None
       THEN /\ Raise("render", "ShapefileException")
            /\ UNCHANGED fillfig
       ELSE /\ fillfig' = read_shapefile_and_plot_filled_contour(
                              shpfile, ShapefileName, FillContour(args),
                              Some(strftime(meantime[1], args.fillfig_name[1])),
                              strftime(meantime[1], args.fillfig_title), fillfig)
            /\ pc' = "done"
            /\ UNCHANGED err
    /\ UNCHANGED <<args, arr, meantime, cs, polylist, wi, shpfile, contourfig>>

\* lines 128-142: reading the file back, drawing or saving the figure raises
\* (neither the function nor main catches it)
RenderFail ==
    /\ pc = "render"
    /\ args.fillfig_name # None
    /\ Raise("render", "Exception")
    /\ UNCHANGED <<args, arr, meantime, cs, polylist, wi, shpfile, contourfig, fillfig>>

Next ==
    \/ ReadStage
    \/ ContourStage
    \/ ContourFail
    \/ BuildStage
    \/ OpenStage
    \/ OpenFail
    \/ WriteFeature
    \/ WriteFeatureFail
    \/ WriteClose
    \/ RenderStage
    \/ RenderFail

Spec == Init /\ [][Next]_vars

\* read_nc alone, over every dataset, variable list, scale and reducer
NextRead == ReadStage

SpecRead == InitRead /\ [][NextRead]_vars

(* ============================== properties ============================= *)
\* write_shapefile has returned: main is at or past the render call
WriteReturned ==
    \/ pc \in {"render", "done"}
    \/ (pc = "failed" /\ err.stage = "render")

FileFeatures == IF shpfile = None THEN <<>> ELSE shpfile[1].features

Collections == cs[1].collections

\* rings reported for the collections before the i-th
RECURSIVE RingsBefore(_)
RingsBefore(i) == IF i <= 1 THEN 0 ELSE RingsBefore(i - 1) + Len(Collections[i - 1])

\* the collection the k-th ring, in extraction order, belongs to
CollectionOf(k) ==
    CHOOSE i \in 1 .. Len(Collections) :
        RingsBefore(i) < k /\ k <= RingsBefore(i) + Len(Collections[i])

HasProp(f) == args.propname \in DOMAIN f.properties

Requested == {args.contours[i] : i \in 1 .. Len(args.contours)}

PositionOf(z) == CHOOSE i \in 1 .. Len(args.contours) : args.contours[i] = z

C2_OneFeaturePerRing ==
    WriteReturned =>
        /\ Len(FileFeatures) = RingsBefore(Len(Collections) + 1)
        /\ \A i \in 1 .. Len(Collections) :
              Cardinality({k \in 1 .. Len(FileFeatures) :
                              /\ HasProp(FileFeatures[k])
                              /\ FileFeatures[k].properties[args.propname] = cs[1].levels[i]})
                 = Len(Collections[i])
        /\ \A i \in 1 .. Len(Collections) : \A j \in 1 .. Len(Collections[i]) :
              LET f == FileFeatures[RingsBefore(i) + j]
                  path == Collections[i][j]
                  ring == f.geometry.coordinates[1]
              IN /\ f.geometry.type = "Polygon"
                 /\ Len(f.geometry.coordinates) = 1
                 /\ Len(ring) >= Len(path)
                 /\ SubSeq(ring, 1, Len(path)) = path
                 /\ \/ Len(ring) = Len(path)
                    \/ (Len(ring) = Len(path) + 1 /\ ring[Len(ring)] = path[1])
                 /\ DOMAIN f.properties = {args.propname}

\* a level with an open and a closed ring, both written
C2_Witness ==
    /\ WriteReturned
    /\ \E i \in 1 .. Len(Collections) : Collections[i] = <<Tri, Box>>
    /\ args.propname = "aod"

\* C3: in the file, the features of a level listed earlier in the contour
\* list come before the features of a level listed later
C3_LevelOrder ==
    \A k1, k2 \in 1 .. Len(FileFeatures) :
        k1 < k2 =>
            /\ HasProp(FileFeatures[k1]) /\ HasProp(FileFeatures[k2])
            /\ FileFeatures[k1].properties[args.propname] \in Requested
            /\ FileFeatures[k2].properties[args.propname] \in Requested
            /\ PositionOf(FileFeatures[k1].properties[args.propname])
                  <= PositionOf(FileFeatures[k2].properties[args.propname])

\* a descending level list whose two levels both have features in the file
C3_Witness ==
    /\ pc = "done"
    /\ args.contours = <<25, 10>>
    /\ Len(Collections[1]) = 2
    /\ Len(Collections[2]) = 1
    /\ Len(FileFeatures) = 3

AllEmpty == \A i \in 1 .. Len(Collections) : Collections[i] = <<>>

\* C4: a level without rings is no error: write_shapefile raises in its
\* polygon loop only for a ring that makes no polygon, with no rings at all
\* no feature write can fail, and once it has returned the file exists with
\* the declared schema and holds no feature of a level without rings
C4_EmptyLevels ==
    /\ (pc = "failed" /\ err.stage = "build") =>
          \E i \in 1 .. Len(Collections) : \E j \in 1 .. Len(Collections[i]) :
              PolygonRaises(Collections[i][j])
    /\ (cs # None /\ AllEmpty) => ~(pc = "failed" /\ err.stage = "write")
    /\ WriteReturned =>
          /\ shpfile # None
          /\ shpfile[1].schema.geometry = "Polygon"
          /\ DOMAIN shpfile[1].schema.properties = {args.propname}
          /\ shpfile[1].schema.properties[args.propname] = "float"
          /\ \A i \in 1 .. Len(Collections) :
                Collections[i] = <<>> =>
                    \A k \in 1 .. Len(FileFeatures) :
                        /\ HasProp(FileFeatures[k])
                        /\ FileFeatures[k].properties[args.propname] # cs[1].levels[i]

\* every requested level is without rings and the run has ended in success
C4_Witness ==
    /\ pc = "done"
    /\ Len(args.contours) = 2
    /\ AllEmpty
    /\ shpfile # None
    /\ FileFeatures = <<>>
    /\ args.propname = "aod"

\* the rings of the contour set that make a polygon, in extraction order
RECURSIVE ValidRings(_, _)
ValidRings(i, j) ==
    IF i > Len(Collections) THEN <<>>
    ELSE IF j > Len(Collections[i]) THEN ValidRings(i + 1, 1)
    ELSE (IF PolygonRaises(Collections[i][j]) THEN <<>> ELSE <<Collections[i][j]>>)
         \o ValidRings(i, j + 1)

\* C5: a ring that makes no polygon is dropped without aborting the run, and
\* every other ring is written
C5_DegenerateDropped ==
    /\ ~(pc = "failed" /\ err.stage = "build")
    /\ WriteReturned => Len(FileFeatures) = Len(ValidRings(1, 1))

\* C6: after write_shapefile has returned the file holds every built feature,
\* and after a failed write no file is left behind
C6_AllOrNothing ==
    /\ WriteReturned =>
          /\ Len(FileFeatures) = Len(polylist)
          /\ \A k \in 1 .. Len(polylist) : FileFeatures[k] = Feature(polylist[k])
    /\ (pc = "failed" /\ err.stage \in {"open", "write"}) => shpfile = None

\* C7: once the geometry file is written, main does not fail, whether or not
\* rendering fails
C7_RenderNonFatal ==
    (WriteReturned /\ args.fillfig_name # None) => pc # "failed"

\* the fatal conditions of the read stage, stated on the inputs
WindowEmpty ==
    LET d == get_analysis_date(args.date, args.time_window)
    IN /\ Len(args.ifile.time) > 1
       /\ \A k \in 1 .. Len(args.ifile.time) :
             args.ifile.time[k] < d.start \/ args.ifile.time[k] > d.end

VariableAbsent ==
    \E c \in 1 .. Len(VarList(args.ncvars)) :
        VarList(args.ncvars)[c] \notin DOMAIN args.ifile.data

LevTooLong == args.ifile.lev > 1

StageSteps ==
    {<<"read", "contour">>, <<"contour", "build">>, <<"build", "open">>,
     <<"open", "writing">>, <<"writing", "writing">>, <<"writing", "render">>,
     <<"render", "done">>} \cup
    {<<p, "failed">> : p \in {"read", "contour", "build", "open", "writing", "render"}}

StageStep == <<pc, pc'>> \in StageSteps

\* C8: the stages run in the order read, extract, build and write, render; a
\* fatal failure of the read stage ends the run there with nothing extracted
\* and no file or figure created; the figure is drawn only when the writer
\* has written every feature, and from the features of the file
C8_StageOrder ==
    /\ [][StageStep]_vars
    /\ []((WindowEmpty \/ VariableAbsent \/ LevTooLong) =>
            /\ pc \in {"read", "failed"}
            /\ (pc = "failed" => err.stage = "read")
            /\ cs = None /\ polylist = <<>>
            /\ shpfile = None /\ contourfig = None /\ fillfig = None)
    /\ [](pc \in {"contour", "build", "open", "writing"} => fillfig = None)
    /\ []((pc \in {"render", "done"} \/ fillfig # None) =>
            /\ shpfile # None
            /\ wi = Len(polylist) + 1
            /\ Len(FileFeatures) = Len(polylist))
    /\ [](fillfig # None =>
            \A q \in 1 .. Len(fillfig[1].fills) :
                \E k \in 1 .. Len(FileFeatures) :
                    LET ring == FileFeatures[k].geometry.coordinates[1]
                    IN /\ Len(fillfig[1].fills[q].x) = Len(ring)
                       /\ \A n \in 1 .. Len(ring) :
                             /\ fillfig[1].fills[q].x[n] = ring[n][1]
                             /\ fillfig[1].fills[q].y[n] = ring[n][2])

\* a source with a 'lev' dimension of length 2 has ended the run in read_nc
C8_Witness ==
    /\ LevTooLong
    /\ ~WindowEmpty /\ ~VariableAbsent
    /\ pc = "failed"
    /\ err.stage = "read"

\* C10: the figure fills exactly the features of the file whose attribute
\* equals the selected level, which is fillfig_contour when given and else
\* the first contour level; without a figure name no figure is produced
C10_RendererSelects ==
    LET selected == IF args.fillfig_contour = None THEN args.contours[1]
                    ELSE args.fillfig_contour[1]
        matching == {k \in 1 .. Len(FileFeatures) :
                        /\ HasProp(FileFeatures[k])
                        /\ FileFeatures[k].properties[args.propname] = selected}
        Same(fill, k) ==
            LET ring == FileFeatures[k].geometry.coordinates[1]
            IN /\ Len(fill.x) = Len(ring) /\ Len(fill.y) = Len(ring)
               /\ \A n \in 1 .. Len(ring) : fill.x[n] = ring[n][1] /\ fill.y[n] = ring[n][2]
    IN /\ args.fillfig_name = None => fillfig = None
       /\ pc = "done" => fillfig # None
       /\ fillfig # None =>
             /\ Len(fillfig[1].fills) = Cardinality(matching)
             /\ \A k \in matching : \E q \in 1 .. Len(fillfig[1].fills) :
                   Same(fillfig[1].fills[q], k)
             /\ \A q \in 1 .. Len(fillfig[1].fills) : \E k \in matching :
                   Same(fillfig[1].fills[q], k)

\* fillfig_contour is None, both levels have features, the figure is drawn
C10_Witness ==
    /\ pc = "done"
    /\ args.fillfig_contour = None
    /\ args.contours = <<25, 10>>
    /\ Collections[1] = <<Tri>>
    /\ Collections[2] = <<Box, Tri>>
    /\ Len(fillfig[1].fills) = 1

\* the figure is drawn for a level given on the command line that is not the
\* first of the list
C10_WitnessGiven ==
    /\ pc = "done"
    /\ args.fillfig_contour = Some(25)
    /\ args.contours = <<10, 25>>
    /\ Len(Collections[1]) = 1
    /\ Len(Collections[2]) = 2
    /\ Len(fillfig[1].fills) = 2

\* the samples the reduction runs over, stated on the inputs: the one sample
\* of a single-sample source, else the samples inside the window
Selected ==
    LET d == get_analysis_date(args.date, args.time_window)
    IN IF Len(args.ifile.time) = 1 THEN {1}
       ELSE {k \in 1 .. Len(args.ifile.time) :
                d.start <= args.ifile.time[k] /\ args.ifile.time[k] <= d.end}

\* the sum of the requested variables at sample k in cell x
SumOfVars(k, x) ==
    IF args.ncvars.type = "str" THEN args.ifile.data[args.ncvars.v][k][x]
    ELSE SumSeq([c \in 1 .. Len(args.ncvars.v) |-> args.ifile.data[args.ncvars.v[c]][k][x]])

RECURSIVE SumOver(_, _)
SumOver(S, x) ==
    IF S = {} THEN 0
    ELSE LET k == CHOOSE k \in S : TRUE IN SumOfVars(k, x) + SumOver(S \ {k}, x)

\* C9: the field read_nc returns is, per cell, scal times the reducer over the
\* selected samples of the sum of the variables; a single-sample source is
\* not sliced and gives that sample times scal under every reducer
C9_Aggregation ==
    /\ pc = "contour" =>
          \A x \in Cells :
              LET a == arr[1][x]
              IN /\ a.den > 0
                 /\ args.func = "mean" =>
                       a.num * Cardinality(Selected) = a.den * args.ncscal * SumOver(Selected, x)
                 /\ args.func = "max" =>
                       \E k \in Selected :
                           /\ \A k2 \in Selected : SumOfVars(k2, x) <= SumOfVars(k, x)
                           /\ a.num = a.den * args.ncscal * SumOfVars(k, x)
                 /\ args.func = "min" =>
                       \E k \in Selected :
                           /\ \A k2 \in Selected : SumOfVars(k2, x) >= SumOfVars(k, x)
                           /\ a.num = a.den * args.ncscal * SumOfVars(k, x)
                 /\ Len(args.ifile.time) = 1 =>
                       a.num = a.den * args.ncscal * SumOfVars(1, x)
    /\ (pc # "read" /\ Len(args.ifile.time) = 1 /\ ~VariableAbsent) => pc = "contour"

\* two variables, two samples in the window, reducer max, and a cell where
\* the maximum of the sum is not the sum of the maxima
C9_Witness ==
    /\ pc = "contour"
    /\ args.func = "max"
    /\ args.ncvars.type = "list"
    /\ Len(args.ncvars.v) = 2
    /\ args.ncscal = 3
    /\ Cardinality(Selected) = 2
    /\ Len(args.ifile.time) = 2
    /\ args.ifile.data["a"][1]["c1"] = 2 /\ args.ifile.data["a"][2]["c1"] = 0
    /\ args.ifile.data["b"][1]["c1"] = 0 /\ args.ifile.data["b"][2]["c1"] = 1
    /\ arr[1]["c1"].num = 6

\* a single sample outside the window is read without slicing
C9_WitnessSingle ==
    /\ pc = "contour"
    /\ args.ifile.time = <<3>>
    /\ args.func = "mean"
====
